---------------------------- MODULE Spec2Model ----------------------------
(***************************************************************************)
(* Model of the e-mail discovery core of asymmetrica-email-tool:           *)
(*   src/email_search.py  discover_emails and its helpers                  *)
(*   src/utils.py         generate_email_formats, verify_email             *)
(* Python strings are TLA+ strings; a character is a string of length 1.   *)
(***************************************************************************)
EXTENDS Integers, Sequences, FiniteSets, TLC

(***************************************************************************)
(* String primitives (Python str methods and the re patterns of the code). *)
(***************************************************************************)
\* s[i:i+1], 1-based: the empty string outside the string
Ch(s, i) == IF 1 <= i /\ i <= Len(s) THEN SubSeq(s, i, i) ELSE ""

\* s[:n]
Prefix(s, n) == SubSeq(s, 1, IF n <= Len(s) THEN n ELSE Len(s))

CharsOf(s) == { SubSeq(s, i, i) : i \in 1..Len(s) }

Uppers == "ABCDEFGHIJKLMNOPQRSTUVWXYZ"
Lowers == "abcdefghijklmnopqrstuvwxyz"
Digits == "0123456789"

UpperSet == CharsOf(Uppers)
LowerSet == CharsOf(Lowers)
DigitSet == CharsOf(Digits)
AlphaSet == UpperSet \cup LowerSet
AlnumSet == AlphaSet \cup DigitSet
SpaceSet == {" ", "\t", "\n"}

\* The characters of the model in code-point order (ASCII).
Alphabet == "\t\n +-./0123456789:<=>@ABCDEFGHIJKLMNOPQRSTUVWXYZ_abcdefghijklmnopqrstuvwxyz"

Ord == [c \in CharsOf(Alphabet) |-> CHOOSE i \in 1..Len(Alphabet) : Ch(Alphabet, i) = c]

LowerMap == [ c \in UpperSet |-> Ch(Lowers, CHOOSE i \in 1..Len(Uppers) : Ch(Uppers, i) = c) ]

\* str.lower() on one character
LowerChar(c) == IF c \in UpperSet THEN LowerMap[c] ELSE c

RECURSIVE Lower(_)
\* str.lower()
Lower(s) == IF s = "" THEN "" ELSE LowerChar(Head(s)) \o Lower(Tail(s))

\* str.isalpha(): non-empty and every character a letter
IsAlpha(s) == s # "" /\ \A i \in 1..Len(s) : Ch(s, i) \in AlphaSet

StartsWith(s, p) == Len(p) <= Len(s) /\ SubSeq(s, 1, Len(p)) = p

EndsWith(s, p) == Len(p) <= Len(s) /\ SubSeq(s, Len(s) - Len(p) + 1, Len(s)) = p

\* Python's `sub in s`
Contains(s, sub) ==
    \E i \in 1..(Len(s) - Len(sub) + 1) : SubSeq(s, i, i + Len(sub) - 1) = sub

RECURSIVE LStrip(_)
LStrip(s) == IF s # "" /\ Head(s) \in SpaceSet THEN LStrip(Tail(s)) ELSE s

RECURSIVE RStrip(_)
RStrip(s) ==
    IF s # "" /\ Ch(s, Len(s)) \in SpaceSet THEN RStrip(SubSeq(s, 1, Len(s) - 1)) ELSE s

\* str.strip()
Strip(s) == RStrip(LStrip(s))

RECURSIVE RStripSlash(_)
\* str.rstrip("/")
RStripSlash(s) ==
    IF s # "" /\ Ch(s, Len(s)) = "/" THEN RStripSlash(SubSeq(s, 1, Len(s) - 1)) ELSE s

RECURSIVE SplitWS(_)
\* str.split(): the maximal runs of non-whitespace characters, in order
SplitWS(s) ==
    LET t == LStrip(s)
        n == IF \E i \in 1..Len(t) : Ch(t, i) \in SpaceSet
             THEN (CHOOSE i \in 1..Len(t) :
                       /\ Ch(t, i) \in SpaceSet
                       /\ \A j \in 1..(i - 1) : Ch(t, j) \notin SpaceSet) - 1
             ELSE Len(t)
    IN  IF t = "" THEN << >>
        ELSE << SubSeq(t, 1, n) >> \o SplitWS(SubSeq(t, n + 1, Len(t)))

RECURSIVE SplitLast(_, _)
\* s.split(sep)[-1]: what follows the last of the non-overlapping occurrences
\* of sep found scanning from the left
SplitLast(s, sep) ==
    IF Contains(s, sep)
    THEN LET i == CHOOSE k \in 1..Len(s) :
                      /\ SubSeq(s, k, k + Len(sep) - 1) = sep
                      /\ \A j \in 1..(k - 1) : SubSeq(s, j, j + Len(sep) - 1) # sep
         IN  SplitLast(SubSeq(s, i + Len(sep), Len(s)), sep)
    ELSE s

\* Lexicographic order by code point (the order of sorted() on str)
RECURSIVE StrLess(_, _)
StrLess(a, b) ==
    IF a = "" THEN b # ""
    ELSE IF b = "" THEN FALSE
    ELSE IF Head(a) = Head(b) THEN StrLess(Tail(a), Tail(b))
    ELSE Ord[Head(a)] < Ord[Head(b)]

\* Sorted with the comparison reversed
RECURSIVE SortedMutDescending(_)
SortedMutDescending(S) ==
    IF S = {} THEN << >>
    ELSE LET m == CHOOSE x \in S : \A y \in S \ {x} : StrLess(y, x)
         IN  << m >> \o SortedMutDescending(S \ {m})

RECURSIVE Sorted(_)
\* sorted(found): the elements of a set of strings in ascending order
Sorted(S) ==
    IF S = {} THEN << >>
    ELSE LET m == CHOOSE x \in S : \A y \in S \ {x} : StrLess(x, y)
         IN  << m >> \o Sorted(S \ {m})

Range(q) == { q[i] : i \in 1..Len(q) }


(***************************************************************************)
(* Configuration of email_search.py                                        *)
(***************************************************************************)
DEFAULT_PATHS == << "", "contact", "team", "about", "our-team", "leadership", "who-we-are" >>

BLACKLISTED_EMAIL_DOMAINS ==
    { "linkedin.com", "facebook.com", "twitter.com", "instagram.com",
      "youtube.com", "example.com" }

BinaryExts == { ".pdf", ".png", ".jpg", ".jpeg", ".gif", ".zip", ".doc", ".docx", ".ppt", ".pptx" }

LinkKeys == << "contact", "team", "about" >>

\* the pattern compiled without re.I
BinaryMutCaseSensitive(url) ==
    LET u == SubSeq(url, IF Len(url) > 6 THEN Len(url) - 5 ELSE 1, Len(url))
        v == IF EndsWith(u, "\n") THEN SubSeq(u, 1, Len(u) - 1) ELSE u
    IN  \E e \in BinaryExts : EndsWith(u, e) \/ EndsWith(v, e)

\* BINARY_EXT_RE.search(url): the extension at the end of the string, any
\* case; `$` also matches just before one trailing newline.
BINARY_EXT_RE(url) ==
    LET u == Lower(SubSeq(url, IF Len(url) > 6 THEN Len(url) - 5 ELSE 1, Len(url)))
        v == IF EndsWith(u, "\n") THEN SubSeq(u, 1, Len(u) - 1) ELSE u
    IN  \E e \in BinaryExts : EndsWith(u, e) \/ EndsWith(v, e)

\* HTTP_RE.match(url): ^https?:// , any case
HTTP_RE(url) ==
    \/ Lower(Prefix(url, 7)) = "http://"
    \/ Lower(Prefix(url, 8)) = "https://"

(***************************************************************************)
(* EMAIL_RE = [a-zA-Z0-9_.+-]+@[a-zA-Z0-9-]+\.[a-zA-Z0-9-.]+               *)
(***************************************************************************)
LocalSet == AlnumSet \cup {"_", ".", "+", "-"}
HostSet  == AlnumSet \cup {"-"}
TailSet  == AlnumSet \cup {"-", "."}

RECURSIVE RunEnd(_, _, _)
\* index of the last character of the maximal run of cls characters that
\* starts at i (i - 1 when the run is empty)
RunEnd(t, i, cls) ==
    IF i <= Len(t) /\ Ch(t, i) \in cls THEN RunEnd(t, i + 1, cls) ELSE i - 1

\* end of the match of EMAIL_RE that starts at i, 0 when there is none.  Each
\* class excludes the character that must follow it, so the greedy runs are
\* the only candidates.
MatchAt(t, i) ==
    LET j == RunEnd(t, i, LocalSet)
        k == RunEnd(t, j + 2, HostSet)
        m == RunEnd(t, k + 2, TailSet)
    IN  IF /\ j >= i
           /\ Ch(t, j + 1) = "@"
           /\ k >= j + 2
           /\ Ch(t, k + 1) = "."
           /\ m >= k + 2
        THEN m ELSE 0

RECURSIVE FindAll(_, _)
\* EMAIL_RE.findall(text), from position i: leftmost non-overlapping matches
FindAll(t, i) ==
    IF i > Len(t) THEN {}
    ELSE LET m == MatchAt(t, i)
         IN  IF m > 0 THEN { SubSeq(t, i, m) } \cup FindAll(t, m + 1)
             ELSE FindAll(t, i + 1)

\* _email_ok testing only for an exact blacklisted domain
EmailOkMutExact(email) ==
    \A bad \in BLACKLISTED_EMAIL_DOMAINS : ~ EndsWith(email, "@" \o bad)

\* _email_ok
EmailOk(email) ==
    ~ \E bad \in BLACKLISTED_EMAIL_DOMAINS : Contains(email, bad)

\* _extract_emails_from_text
ExtractEmails(text) ==
    LET raw == { Lower(m) : m \in FindAll(text, 1) }
    IN  { e \in raw : EmailOk(e) }

(***************************************************************************)
(* utils.py: pattern generator.  A template is the sequence of its         *)
(* replacement fields and literals.                                        *)
(***************************************************************************)
DEFAULT_PATTERNS ==
    << << "{first}", "@", "{d}" >>,
       << "{first}", ".", "{last}", "@", "{d}" >>,
       << "{first}", "{last}", "@", "{d}" >>,
       << "{first}", "_", "{last}", "@", "{d}" >>,
       << "{f}", "{last}", "@", "{d}" >>,
       << "{first}", "{l}", "@", "{d}" >>,
       << "{first[0]}", "{last}", "@", "{d}" >>,
       << "{last}", "@", "{d}" >> >>

\* the template list of the fallback defined when `from utils import` fails
FALLBACK_PATTERNS ==
    << << "{first}", "@", "{d}" >>,
       << "{first}", ".", "{last}", "@", "{d}" >>,
       << "{first}", "{last}", "@", "{d}" >> >>

RECURSIVE Format(_, _, _, _)
\* tpl.format(first=first, last=last, f=first[0], l=last[0], d=d)
Format(tpl, first, last, d) ==
    IF tpl = << >> THEN ""
    ELSE LET tok == Head(tpl)
             val == CASE tok = "{first}"    -> first
                      [] tok = "{last}"     -> last
                      [] tok = "{f}"        -> Ch(first, 1)
                      [] tok = "{l}"        -> Ch(last, 1)
                      [] tok = "{first[0]}" -> Ch(first, 1)
                      [] tok = "{d}"        -> d
                      [] OTHER              -> tok
         IN  val \o Format(Tail(tpl), first, last, d)

\* first[0] and last[0] are evaluated for every template: an empty name
\* raises IndexError
GenRaises(first, last) == Strip(first) = "" \/ Strip(last) = ""

\* generate_email_formats without the last pattern
GenMutDropLast(first, last, domain) ==
    [ i \in 1..(Len(DEFAULT_PATTERNS) - 1) |->
        Lower(Format(DEFAULT_PATTERNS[i], Strip(first), Strip(last), Lower(domain))) ]

\* utils.generate_email_formats (patterns=None), for names that do not raise
generate_email_formats(first, last, domain) ==
    [ i \in 1..Len(DEFAULT_PATTERNS) |->
        Lower(Format(DEFAULT_PATTERNS[i], Strip(first), Strip(last), Lower(domain))) ]

\* the fallback generate_email_formats of email_search.py
fallback_generate_email_formats(first, last, domain) ==
    [ i \in 1..Len(FALLBACK_PATTERNS) |->
        Format(FALLBACK_PATTERNS[i], first, last, domain) ]

(***************************************************************************)
(* email_search.py helpers                                                 *)
(***************************************************************************)
None == "<None>"

\* _normalise_base without the test of line 132
NormaliseBaseMutNoGuard(domain_or_url) ==
    LET url == Strip(domain_or_url)
    IN  RStripSlash(IF HTTP_RE(url) THEN url ELSE "https://" \o url)

\* _normalise_base; None and "" are falsy
NormaliseBase(domain_or_url) ==
    IF domain_or_url = None \/ domain_or_url = "" THEN None
    ELSE LET url == Strip(domain_or_url)
         IN  RStripSlash(IF HTTP_RE(url) THEN url ELSE "https://" \o url)

\* an _absolute that also resolves relative links against the base
AbsoluteMutRelative(base, link) ==
    IF HTTP_RE(link) THEN link
    ELSE IF StartsWith(link, "/") THEN base \o link
    ELSE base \o "/" \o link

\* _absolute
Absolute(base, link) ==
    IF HTTP_RE(link) THEN link
    ELSE IF StartsWith(link, "/") THEN base \o link
    ELSE None

\* the test of _tokenise_names without the isalpha() check
ValidNameMutNoAlpha(full) == Len(SplitWS(Strip(full))) >= 2

\* the test _tokenise_names applies to one name
ValidName(full) ==
    LET parts == SplitWS(Strip(full))
    IN  /\ Len(parts) >= 2
        /\ IsAlpha(Lower(parts[1]))
        /\ IsAlpha(Lower(parts[Len(parts)]))

NamePair(full) ==
    LET parts == SplitWS(Strip(full))
    IN  << Lower(parts[1]), Lower(parts[Len(parts)]) >>

RECURSIVE TokeniseNames(_)
\* _tokenise_names
TokeniseNames(names) ==
    IF names = << >> THEN << >>
    ELSE (IF ValidName(Head(names)) THEN << NamePair(Head(names)) >> ELSE << >>)
         \o TokeniseNames(Tail(names))

\* seeds: [f"{base}/{p}".rstrip("/") for p in DEFAULT_PATHS][:max_pages];
\* a negative max_pages slices from the end
SeedCount(max_pages) ==
    IF max_pages >= 0
    THEN (IF max_pages < Len(DEFAULT_PATHS) THEN max_pages ELSE Len(DEFAULT_PATHS))
    ELSE (IF Len(DEFAULT_PATHS) + max_pages > 0 THEN Len(DEFAULT_PATHS) + max_pages ELSE 0)

SeedPages(base, max_pages) ==
    [ i \in 1..SeedCount(max_pages) |-> RStripSlash(base \o "/" \o DEFAULT_PATHS[i]) ]


(***************************************************************************)
(* The network.  A response is what requests.get gives for one URL: it     *)
(* raises, or it has a status, a Content-Type header ("" when absent), a   *)
(* body, and the href values of the body's <a href=...> elements in        *)
(* document order (what BeautifulSoup's find_all("a", href=True) yields).  *)
(***************************************************************************)
Raises == [ exc |-> TRUE, status |-> 0, ctype |-> "", text |-> "", hrefs |-> << >> ]

Resp(status, ctype, text, hrefs) ==
    [ exc |-> FALSE, status |-> status, ctype |-> ctype, text |-> text, hrefs |-> hrefs ]

NotFound == Resp(404, "text/html", "No such page. webmaster@acme.test", << "/contact-404" >>)

\* the part of url after base ("" for the homepage), the whole url off-site
PathOf(base, url) ==
    IF StartsWith(url, base) THEN SubSeq(url, Len(base) + 1, Len(url)) ELSE url

SiteNames == { "dead", "plain", "links", "loop", "odd" }

\* the response of one of the modelled sites for a URL
SiteResponse(site, base, url) ==
    LET p == PathOf(base, url)
    IN  CASE site = "dead" -> Raises
          [] site = "plain" ->
               ( CASE p = "" ->
                        Resp(200, "text/html",
                             "Write to Info@Acme.Test or <b>Jane.Doe@acme.test</b>.", << >>)
                   [] p = "/contact" ->
                        Resp(200, "text/html; charset=utf-8",
                             "sales@acme.test Foo@LinkedIn.com bob@mail.facebook.com.au info@acme.test",
                             << "/news", "mailto:sales@acme.test" >>)
                   [] p = "/team" ->
                        Resp(200, "application/json", "api@acme.test", << "/team-api" >>)
                   [] OTHER -> NotFound )
          [] site = "links" ->
               ( CASE p = "" ->
                        Resp(200, "text/html", "ceo@acme.test",
                             << "/contact-us", "/About/Team", "team.html", "/news",
                                "https://other.test/contact", "/about.pdf", "/contact" >>)
                   [] p = "/contact" ->
                        Resp(200, "text/html", "maria.gomez@acme.test",
                             << "/contact-us", "/about-us", "/Team.PNG", "/about.pdf?v=2" >>)
                   [] p = "/contact-us" ->
                        Resp(200, "text/html", "help@acme.test", << "/contact-us", "/contact" >>)
                   [] p = "https://other.test/contact" ->
                        Resp(200, "text/html", "spy@other.test", << >>)
                   [] OTHER -> NotFound )
          [] site = "loop" ->
               Resp(200, "text/html", "loop@acme.test doe@acme.test",
                    << "/contact", "/about", "/team-a", "/team-b", "/team-a" >>)
          [] site = "odd" ->
               ( CASE p = ""         -> Resp(200, "text/html", "", << "/contact-us" >>)
                   [] p = "/contact" -> Resp(500, "text/html", "oops@acme.test", << "/about-us" >>)
                   [] p = "/team"    -> Resp(200, "", "x@acme.test", << "/team-x" >>)
                   [] OTHER          -> Raises )

\* a fetcher that takes any 200 response, whatever its Content-Type
SafeGetMutAnyType(resp) ==
    IF resp.exc THEN None
    ELSE IF resp.status = 200 THEN resp.text
    ELSE None

\* _safe_get: the body, or None
SafeGet(resp) ==
    IF resp.exc THEN None
    ELSE IF resp.status = 200 /\ Contains(resp.ctype, "text/html") THEN resp.text
    ELSE None

\* _safe_get as a call: it has no statement outside the try but `return
\* None`, and it never sleeps
SafeGetRun(resp) ==
    [ ret |-> SafeGet(resp), raised |-> FALSE, slept |-> FALSE ]

\* utils.safe_get: the same test, with a sleep before a body is returned
UtilsSafeGetRun(resp) ==
    IF resp.exc THEN [ ret |-> None, raised |-> FALSE, slept |-> FALSE ]
    ELSE IF resp.status = 200 /\ Contains(resp.ctype, "text/html")
         THEN [ ret |-> resp.text, raised |-> FALSE, slept |-> TRUE ]
         ELSE [ ret |-> None, raised |-> FALSE, slept |-> FALSE ]

\* the test one anchor passes before it is appended to pages_to_visit
LinkWanted(base, href, visited) ==
    /\ \E i \in 1..Len(LinkKeys) : Contains(Lower(href), LinkKeys[i])
    /\ Absolute(base, href) # None
    /\ Absolute(base, href) # ""
    /\ Absolute(base, href) \notin visited
    /\ ~ BINARY_EXT_RE(Absolute(base, href))

RECURSIVE DiscoverLinks(_, _, _)
\* the URLs the opportunistic crawl appends for one page, in document order
DiscoverLinks(base, hrefs, visited) ==
    IF hrefs = << >> THEN << >>
    ELSE (IF LinkWanted(base, Head(hrefs), visited)
          THEN << Absolute(base, Head(hrefs)) >> ELSE << >>)
         \o DiscoverLinks(base, Tail(hrefs), visited)

(***************************************************************************)
(* The mail side.  A mail environment is the MX answer for the domain (no  *)
(* record: the resolver raises), the hosts that refuse connections, each   *)
(* host's RCPT policy and whether QUIT raises.                             *)
(***************************************************************************)
MailNames == { "nomx", "catchall", "known", "greylist", "quitfail" }

Mailboxes == { "maria.gomez", "jdoe", "doe", "info" }

MailEnv(mail) ==
    CASE mail = "nomx" ->
           [ mx |-> << >>, down |-> {}, policy |-> "reject_all", quitRaises |-> FALSE ]
      [] mail = "catchall" ->
           [ mx |-> << [preference |-> 10, exchange |-> "mx1"] >>, down |-> {},
             policy |-> "accept_all", quitRaises |-> FALSE ]
      [] mail = "known" ->
           [ mx |-> << [preference |-> 20, exchange |-> "mx2"],
                       [preference |-> 10, exchange |-> "mx1"] >>, down |-> {"mx2"},
             policy |-> "known", quitRaises |-> FALSE ]
      [] mail = "greylist" ->
           [ mx |-> << [preference |-> 10, exchange |-> "mx1"] >>, down |-> {},
             policy |-> "greylist", quitRaises |-> FALSE ]
      [] mail = "quitfail" ->
           [ mx |-> << [preference |-> 10, exchange |-> "mx1"] >>, down |-> {},
             policy |-> "accept_all", quitRaises |-> TRUE ]

LocalPart(address) ==
    IF Contains(address, "@")
    THEN SubSeq(address, 1, (CHOOSE i \in 1..Len(address) :
                                /\ Ch(address, i) = "@"
                                /\ \A j \in 1..(i - 1) : Ch(address, j) # "@") - 1)
    ELSE address

\* the server's answer to RCPT TO (0: the call raises), n probes having
\* been made before
RcptCode(policy, address, n) ==
    CASE policy = "accept_all" -> 250
      [] policy = "reject_all" -> 550
      [] policy = "known"      -> IF LocalPart(address) \in Mailboxes THEN 250 ELSE 550
      [] policy = "greylist"   -> IF n % 2 = 0 THEN 450 ELSE 251
      [] OTHER                 -> 0

\* sorted(records, key=lambda r: r.preference)[0].exchange (the sort is stable)
LowestMx(mx) ==
    LET i == CHOOSE k \in 1..Len(mx) :
                 /\ \A j \in 1..Len(mx) : mx[k].preference <= mx[j].preference
                 /\ \A j \in 1..(k - 1) : mx[j].preference > mx[k].preference
    IN  mx[i].exchange

(***************************************************************************)
(* One probe, step by step.  A dialogue is what the outside world does to  *)
(* one probe: the MX answer, the hosts that refuse the connection, whether *)
(* HELO and MAIL FROM raise, the RCPT TO code (0: rcpt raises) and whether *)
(* QUIT raises.                                                            *)
(***************************************************************************)
StepNames == << "resolve", "connect", "helo", "mail", "rcpt", "quit" >>

\* the first statement of the try block that raises ("none": none does)
FirstFailure(d, host) ==
    IF d.mx = << >> THEN "resolve"
    ELSE IF host \in d.refuse THEN "connect"
    ELSE IF d.helo = "raise" THEN "helo"
    ELSE IF d.mailfrom = "raise" THEN "mail"
    ELSE IF d.rcpt = 0 THEN "rcpt"
    ELSE IF d.quit = "raise" THEN "quit"
    ELSE "none"

\* the steps that ran to completion, in order
Completed(failed) ==
    IF failed = "none" THEN StepNames
    ELSE SubSeq(StepNames, 1, (CHOOSE i \in 1..Len(StepNames) : StepNames[i] = failed) - 1)

\* the try block: the steps in order up to the first that raises; the
\* except clause turns an exception into False
TryProbe(d, host, okCodes) ==
    LET failed == FirstFailure(d, host)
    IN  [ ret       |-> failed = "none" /\ d.rcpt \in okCodes,
          raised    |-> FALSE,
          completed |-> Completed(failed),
          failed    |-> failed,
          host      |-> IF failed = "resolve" THEN "" ELSE host ]

\* a verifier that looks only at whether the dialogue went through
VerifyRunMutAnyCode(d) ==
    [ TryProbe(d, IF d.mx = << >> THEN "" ELSE LowestMx(d.mx), {250, 251})
        EXCEPT !.ret = FirstFailure(d, IF d.mx = << >> THEN "" ELSE LowestMx(d.mx)) = "none" ]

\* utils.verify_email: the MX of lowest preference, 250 or 251
VerifyRun(d) ==
    TryProbe(d, IF d.mx = << >> THEN "" ELSE LowestMx(d.mx), {250, 251})

\* the verify_email nested in utils.discover_emails: the first MX record
\* as the resolver returned it, 250 only
NestedVerifyRun(d) ==
    TryProbe(d, IF d.mx = << >> THEN "" ELSE d.mx[1].exchange, {250})

\* what a mail environment does to the probe of one address, n probes
\* having been made before
DialogueOf(mail, address, n) ==
    LET env == MailEnv(mail)
    IN  [ mx       |-> env.mx,
          refuse   |-> env.down,
          helo     |-> "ok",
          mailfrom |-> "ok",
          rcpt     |-> RcptCode(env.policy, address, n),
          quit     |-> IF env.quitRaises THEN "raise" ELSE "ok" ]

\* utils.verify_email(address, domain) in a mail environment
verify_email(mail, address, n) == VerifyRun(DialogueOf(mail, address, n)).ret

\* a random local part, as the catch-all probe uses
RandomLocal == "xqzjvkwpfy"

\* utils.py imports os, re, time, random, socket, smtplib, pathlib, typing,
\* requests, dns.resolver, dotenv and mimetypes: the name `string` is unbound
StringImported == FALSE

\* is_catch_all nested in utils.discover_emails: line 240 evaluates
\* string.ascii_lowercase, outside any try, before the probe
IsCatchAllRun(d) ==
    IF StringImported THEN NestedVerifyRun(d)
    ELSE [ ret |-> FALSE, raised |-> TRUE, completed |-> << >>, failed |-> "NameError",
           host |-> "" ]


(***************************************************************************)
(* utils.discover_emails, the generate-and-verify routine of utils.py      *)
(***************************************************************************)
\* generate_formats(first, last, domain), lines 213-221
generate_formats(first, last, d) ==
    << Ch(first, 1) \o last \o "@" \o d,
       Ch(first, 1) \o "." \o last \o "@" \o d,
       Ch(first, 1) \o "_" \o last \o "@" \o d,
       Ch(first, 1) \o "-" \o last \o "@" \o d,
       first \o "@" \o d,
       first \o last \o "@" \o d,
       first \o "." \o last \o "@" \o d,
       first \o "_" \o last \o "@" \o d,
       first \o "-" \o last \o "@" \o d,
       Ch(first, 1) \o Ch(last, 1) \o "@" \o d,
       Ch(first, 1) \o "." \o Ch(last, 1) \o "@" \o d,
       Ch(first, 1) \o "-" \o Ch(last, 1) \o "@" \o d,
       first \o Ch(last, 1) \o "@" \o d,
       first \o "." \o Ch(last, 1) \o "@" \o d,
       first \o "_" \o Ch(last, 1) \o "@" \o d,
       first \o "-" \o Ch(last, 1) \o "@" \o d,
       last \o "@" \o d,
       Ch(last, 1) \o "@" \o d >>

\* the nested verify_email(email, domain) in a mail environment
nested_verify_email(mail, address, n) == NestedVerifyRun(DialogueOf(mail, address, n)).ret

RECURSIVE FirstValid(_, _, _, _)
\* lines 257-261: the index of the first candidate the verifier accepts
\* (0: none), n probes having been made before
FirstValid(cands, i, mail, n) ==
    IF i > Len(cands) THEN 0
    ELSE IF nested_verify_email(mail, cands[i], n) THEN i
    ELSE FirstValid(cands, i + 1, mail, n + 1)

RECURSIVE NameLoop(_, _, _, _, _)
\* lines 248-264: the addresses the loop over the names appends
NameLoop(names, d, verify, mail, n) ==
    IF names = << >> THEN << >>
    ELSE LET parts == SplitWS(Head(names))
         IN  IF Len(parts) < 2 THEN NameLoop(Tail(names), d, verify, mail, n)
             ELSE LET cands == generate_formats(Lower(parts[1]), Lower(parts[Len(parts)]), d)
                      hit   == FirstValid(cands, 1, mail, n)
                  IN  IF ~ verify THEN << cands[1] >> \o NameLoop(Tail(names), d, verify, mail, n)
                      ELSE IF hit = 0 THEN NameLoop(Tail(names), d, verify, mail, n + Len(cands))
                      ELSE << cands[hit] >> \o NameLoop(Tail(names), d, verify, mail, n + hit)

CATCH_ALL_MESSAGE == "Unable to verify emails (catch-all domain)"

\* utils.discover_emails(domain, candidate_names, verify=verify): the list
\* returned, or an exception out of the call
UtilsDiscover(d, names, verify, mail) ==
    IF d = None \/ d = "" THEN [ raised |-> FALSE, ret |-> << >> ]
    ELSE IF verify
    THEN LET probe == IsCatchAllRun(DialogueOf(mail, RandomLocal \o "@" \o d, 0))
         IN  IF probe.raised THEN [ raised |-> TRUE, ret |-> << >> ]
             ELSE IF probe.ret THEN [ raised |-> FALSE, ret |-> << CATCH_ALL_MESSAGE >> ]
             ELSE [ raised |-> FALSE, ret |-> NameLoop(names, d, TRUE, mail, 1) ]
    ELSE [ raised |-> FALSE, ret |-> NameLoop(names, d, FALSE, mail, 0) ]


(***************************************************************************)
(* One call of email_search.discover_emails                                *)
(***************************************************************************)
VARIABLES
    domain_or_url,    \* argument
    candidate_names,  \* argument: a sequence of names (empty for None)
    max_pages,        \* argument
    verify,           \* argument
    site,             \* the web site that answers the fetches
    mail,             \* the mail environment that answers the probes
    utils_ok,         \* whether `from utils import ...` succeeded
    pc,               \* position in discover_emails
    base,             \* local
    pages_to_visit,   \* local: the page queue
    idx,              \* position of the for loop in pages_to_visit
    visited,          \* local
    found,            \* local
    domain,           \* local of the guessing part
    pairs,            \* first_last_pairs
    pi,               \* position of the outer guessing loop
    guesses,          \* the patterns generated for pairs[pi]
    gi,               \* position of the inner guessing loop
    result,           \* the returned list
    fetched,          \* history: the URLs passed to _safe_get, in order
    probed,           \* history: the addresses passed to verify_email, in order
    accepted,         \* history: the addresses verify_email returned True for
    scraped,          \* history: the addresses the extractor returned
    kept,             \* history: the guesses added to found
    fetchlog,         \* history: one record for each call of _safe_get, in order
    run,              \* the number of the call in progress, from 1
    prev,             \* the lists the earlier calls returned, in order
    call              \* a direct call of one helper: function, arguments, result

orchVars == << domain_or_url, candidate_names, max_pages, verify, site, mail, utils_ok,
               pc, base, pages_to_visit, idx, visited, found, domain, pairs, pi, guesses, gi,
               result, fetched, probed, accepted, scraped, kept, fetchlog, run, prev >>

vars == << domain_or_url, candidate_names, max_pages, verify, site, mail, utils_ok,
           pc, base, pages_to_visit, idx, visited, found, domain, pairs, pi, guesses, gi,
           result, fetched, probed, accepted, scraped, kept, fetchlog, run, prev, call >>

\* largest max_pages argument of the model
MaxPages == 3

DomainInputs ==
    { None, "", "  ", "acme.test", " Acme.Test/", "https://acme.test/team", "linkedin.com" }

\* None and the empty list are both falsy at line 106 and are both << >> here
NameInputs ==
    { << >>,
      << "Maria Gomez" >>,
      << "Madonna", "Jane Doe", "J0hn Doe" >>,
      << " maria  de la GOMEZ ", "Al Doe3", "Jane Doe" >> }

NoCall == [ fn |-> "none" ]

LocalsInit(p) ==
    /\ pc = p
    /\ base = None
    /\ pages_to_visit = << >>
    /\ idx = 1
    /\ visited = {}
    /\ found = {}
    /\ domain = ""
    /\ pairs = << >>
    /\ pi = 1
    /\ guesses = << >>
    /\ gi = 1
    /\ result = << >>
    /\ fetched = << >>
    /\ probed = << >>
    /\ accepted = {}
    /\ scraped = {}
    /\ kept = {}
    /\ fetchlog = << >>

Init ==
    /\ domain_or_url \in DomainInputs
    /\ candidate_names \in NameInputs
    /\ max_pages \in -1..MaxPages
    /\ verify \in BOOLEAN
    /\ site \in SiteNames
    /\ utils_ok \in BOOLEAN
    \* only utils.verify_email consults the mail environment: the runs that
    \* never call it are modelled with one environment
    /\ mail \in IF verify /\ utils_ok /\ candidate_names # << >> THEN MailNames ELSE {"nomx"}
    /\ LocalsInit("called")
    /\ run = 1
    /\ prev = << >>
    /\ call = NoCall

inputs == << domain_or_url, candidate_names, max_pages, verify, site, mail, utils_ok >>

\* what outlives one call
session == << run, prev >>

\* lines 72-80: normalise; an empty input returns [] at once
Normalise ==
    /\ pc = "called"
    /\ base' = NormaliseBase(domain_or_url)
    /\ IF base' = None
       THEN /\ pc' = "done"
            /\ result' = << >>
            /\ UNCHANGED << pages_to_visit >>
       ELSE /\ pc' = "crawl"
            /\ pages_to_visit' = SeedPages(base', max_pages)
            /\ UNCHANGED << result >>
    /\ UNCHANGED << inputs, session, idx, visited, found, domain, pairs, pi, guesses, gi,
                    fetched, probed, accepted, scraped, kept, fetchlog, call >>

InCrawl == pc = "crawl" /\ idx <= Len(pages_to_visit)

\* a loop head that passes over binary URLs only
SkippedMutNoVisited(url) == BINARY_EXT_RE(url)

\* line 83: the test at the head of the loop body
Skipped(url) == url \in visited \/ BINARY_EXT_RE(url)

\* link discovery that goes on after the budget is spent
MayQueueMutAlways(seen) == TRUE

\* line 94: links are queued only while fewer than max_pages URLs are visited
MayQueue(seen) == Cardinality(seen) < max_pages

\* lines 87-103 for one URL: what _safe_get returned (None, an empty body
\* or a page) and whether the loop body reached time.sleep at line 103,
\* which the `continue` of line 89 jumps over
FetchRecord(url, html) ==
    [ url   |-> url,
      got   |-> IF html = None THEN "none" ELSE IF html = "" THEN "empty" ELSE "page",
      slept |-> html # None /\ html # "" ]

\* an assignment in place of the in-place union
AddFoundMutAssign(old, new) == new

\* line 91: found |= ...
AddFound(old, new) == old \cup new

\* lines 83-84: an already visited or binary URL is passed over
CrawlSkip ==
    /\ InCrawl
    /\ Skipped(pages_to_visit[idx])
    /\ idx' = idx + 1
    /\ UNCHANGED << inputs, session, pc, base, pages_to_visit, visited, found, domain, pairs, pi, guesses, gi,
                    result, fetched, probed, accepted, scraped, kept, fetchlog, call >>

\* lines 85-89: the URL is marked visited and fetched; nothing came back
CrawlFetchNothing ==
    /\ InCrawl
    /\ LET url  == pages_to_visit[idx]
           html == SafeGet(SiteResponse(site, base, url))
       IN  /\ ~ Skipped(url)
           /\ html = None \/ html = ""
           /\ visited' = visited \cup {url}
           /\ fetched' = Append(fetched, url)
           /\ fetchlog' = Append(fetchlog, FetchRecord(url, html))
    /\ idx' = idx + 1
    /\ UNCHANGED << inputs, session, pc, base, pages_to_visit, found, domain, pairs, pi, guesses, gi,
                    result, probed, accepted, scraped, kept, call >>

\* lines 85-103: the URL is marked visited and fetched; its addresses are
\* added, while the budget lasts its links are queued, and the loop sleeps
CrawlFetchPage ==
    /\ InCrawl
    /\ LET url  == pages_to_visit[idx]
           resp == SiteResponse(site, base, url)
           html == SafeGet(resp)
       IN  /\ ~ Skipped(url)
           /\ html # None /\ html # ""
           /\ visited' = visited \cup {url}
           /\ fetched' = Append(fetched, url)
           /\ fetchlog' = Append(fetchlog, FetchRecord(url, html))
           /\ found' = AddFound(found, ExtractEmails(html))
           /\ scraped' = scraped \cup ExtractEmails(html)
           /\ pages_to_visit' =
                 IF MayQueue(visited')
                 THEN pages_to_visit \o DiscoverLinks(base, resp.hrefs, visited')
                 ELSE pages_to_visit
    /\ idx' = idx + 1
    /\ UNCHANGED << inputs, session, pc, base, domain, pairs, pi, guesses, gi,
                    result, probed, accepted, kept, call >>

\* the generator in use: utils.generate_email_formats, or the fallback
Generate(first, last, d) ==
    IF utils_ok THEN generate_email_formats(first, last, d)
    ELSE fallback_generate_email_formats(first, last, d)

\* the verifier in use: utils.verify_email, or the fallback (always True)
Verify(address) ==
    IF utils_ok THEN verify_email(mail, address, Len(probed)) ELSE TRUE

\* lines 106-108: the queue is exhausted; with names, set up the guessing
CrawlEnd ==
    /\ pc = "crawl" /\ idx > Len(pages_to_visit)
    /\ IF candidate_names # << >>
       THEN /\ pc' = "guess"
            /\ domain' = SplitLast(base, "//")
            /\ pairs' = TokeniseNames(candidate_names)
            /\ guesses' = IF pairs' # << >>
                          THEN Generate(pairs'[1][1], pairs'[1][2], domain')
                          ELSE << >>
       ELSE /\ pc' = "return"
            /\ UNCHANGED << domain, pairs, guesses >>
    /\ UNCHANGED << inputs, session, base, pages_to_visit, idx, visited, found, pi, gi,
                    result, fetched, probed, accepted, scraped, kept, fetchlog, call >>

InGuess == pc = "guess" /\ pi <= Len(pairs)

\* line 115 ignoring the verify flag
PassesMutAlwaysVerify(address) == Verify(address)

\* line 115: a guess passes unless verification is requested and fails
Passes(address) == verify => Verify(address)

\* line 112
Guess == Lower(guesses[gi])

\* lines 110-111: the loop variables after one iteration of the inner loop;
\* the generator is called once for each pair
GuessAdvance ==
    IF gi < Len(guesses)
    THEN /\ gi' = gi + 1
         /\ UNCHANGED << pi, guesses >>
    ELSE /\ gi' = 1
         /\ pi' = pi + 1
         /\ guesses' = IF pi + 1 <= Len(pairs)
                       THEN Generate(pairs[pi + 1][1], pairs[pi + 1][2], domain)
                       ELSE << >>

\* a break after found.add: the next pair is taken up at once
KeepAdvanceMutBreak ==
    /\ gi' = 1
    /\ pi' = pi + 1
    /\ guesses' = IF pi + 1 <= Len(pairs)
                  THEN Generate(pairs[pi + 1][1], pairs[pi + 1][2], domain)
                  ELSE << >>

\* line 117: after a guess is kept the inner loop goes on
KeepAdvance == GuessAdvance

\* lines 113-114: a guess already found is passed over
GuessSkip ==
    /\ InGuess
    /\ Guess \in found
    /\ GuessAdvance
    /\ UNCHANGED << inputs, session, pc, base, pages_to_visit, idx, visited, found, domain, pairs,
                    result, fetched, probed, accepted, scraped, kept, fetchlog, call >>

\* lines 115-116: the verifier turned the guess down
GuessReject ==
    /\ InGuess
    /\ Guess \notin found
    /\ ~ Passes(Guess)
    /\ probed' = Append(probed, Guess)
    /\ GuessAdvance
    /\ UNCHANGED << inputs, session, pc, base, pages_to_visit, idx, visited, found, domain, pairs,
                    result, fetched, accepted, scraped, kept, fetchlog, call >>

\* lines 115-117: the guess is kept
GuessKeep ==
    /\ InGuess
    /\ Guess \notin found
    /\ Passes(Guess)
    /\ found' = found \cup {Guess}
    /\ kept' = kept \cup {Guess}
    /\ IF verify
       THEN probed' = Append(probed, Guess) /\ accepted' = accepted \cup {Guess}
       ELSE UNCHANGED << probed, accepted >>
    /\ KeepAdvance
    /\ UNCHANGED << inputs, session, pc, base, pages_to_visit, idx, visited, domain, pairs,
                    result, fetched, scraped, fetchlog, call >>

GuessEnd ==
    /\ pc = "guess" /\ pi > Len(pairs)
    /\ pc' = "return"
    /\ UNCHANGED << inputs, session, base, pages_to_visit, idx, visited, found, domain, pairs, pi, guesses, gi,
                    result, fetched, probed, accepted, scraped, kept, fetchlog, call >>

\* line 119
Return ==
    /\ pc = "return"
    /\ result' = Sorted(found)
    /\ pc' = "done"
    /\ UNCHANGED << inputs, session, base, pages_to_visit, idx, visited, found, domain, pairs, pi, guesses, gi,
                    fetched, probed, accepted, scraped, kept, fetchlog, call >>

Next ==
    \/ Normalise
    \/ CrawlSkip
    \/ CrawlFetchNothing
    \/ CrawlFetchPage
    \/ CrawlEnd
    \/ GuessSkip
    \/ GuessReject
    \/ GuessKeep
    \/ GuessEnd
    \/ Return

Spec == Init /\ [][Next]_vars

\* largest number of calls in a row
MaxRuns == 2

\* a call that keeps the visited set of the call before it
RerunMutKeepVisited ==
    /\ pc = "done"
    /\ run < MaxRuns
    /\ run' = run + 1
    /\ prev' = Append(prev, result)
    /\ pc' = "called"
    /\ base' = None
    /\ pages_to_visit' = << >>
    /\ idx' = 1
    /\ found' = {}
    /\ domain' = ""
    /\ pairs' = << >>
    /\ pi' = 1
    /\ guesses' = << >>
    /\ gi' = 1
    /\ result' = << >>
    /\ fetched' = << >>
    /\ probed' = << >>
    /\ accepted' = {}
    /\ scraped' = {}
    /\ kept' = {}
    /\ fetchlog' = << >>
    /\ UNCHANGED << inputs, visited, call >>

\* lines 47-80: discover_emails is called again with the same arguments
\* against the same site and mail environment; found (line 76), visited
\* (line 80) and pages_to_visit (line 79) are created afresh by each call
Rerun ==
    /\ pc = "done"
    /\ run < MaxRuns
    /\ run' = run + 1
    /\ prev' = Append(prev, result)
    /\ pc' = "called"
    /\ base' = None
    /\ pages_to_visit' = << >>
    /\ idx' = 1
    /\ visited' = {}
    /\ found' = {}
    /\ domain' = ""
    /\ pairs' = << >>
    /\ pi' = 1
    /\ guesses' = << >>
    /\ gi' = 1
    /\ result' = << >>
    /\ fetched' = << >>
    /\ probed' = << >>
    /\ accepted' = {}
    /\ scraped' = {}
    /\ kept' = {}
    /\ fetchlog' = << >>
    /\ UNCHANGED << inputs, call >>

\* the calls that are repeated
InitTwice ==
    /\ Init
    /\ domain_or_url \in { "acme.test", "https://acme.test/team" }
    /\ max_pages >= 1

NextTwice == Next \/ Rerun

SpecTwice == InitTwice /\ [][NextTwice]_vars


(***************************************************************************)
(* Direct calls of the pure helpers.  The orchestrator is idle.            *)
(***************************************************************************)
Idle ==
    /\ domain_or_url = None
    /\ candidate_names = << >>
    /\ max_pages = 0
    /\ verify = FALSE
    /\ site = "dead"
    /\ mail = "nomx"
    /\ utils_ok = TRUE
    /\ LocalsInit("idle")
    /\ run = 1
    /\ prev = << >>

FirstInputs == { "jane", "maria", "j", " al ", "" }
LastInputs  == { "doe", "gomez", "d", "o-neil", "" }
GenDomains  == { "acme.test", "Acme.Test", "MAIL.acme.co.uk", "linkedin.com" }

InitGen ==
    /\ Idle
    /\ \E f \in FirstInputs, l \in LastInputs, d \in GenDomains :
          call = [ fn |-> "generate_email_formats", first |-> f, last |-> l, domain |-> d,
                   done |-> FALSE, raised |-> FALSE, ret |-> << >> ]

\* utils.generate_email_formats(first, last, domain)
GenCall ==
    /\ call.fn = "generate_email_formats"
    /\ ~ call.done
    /\ call' = [ call EXCEPT
                   !.done = TRUE,
                   !.raised = GenRaises(call.first, call.last),
                   !.ret = IF GenRaises(call.first, call.last) THEN << >>
                           ELSE generate_email_formats(call.first, call.last, call.domain) ]
    /\ UNCHANGED orchVars

NextGen == GenCall

SpecGen == InitGen /\ [][NextGen]_vars

TextTokens ==
    { "foo@linkedin.com", "Bob@Acme.Test", "x@mail.FaceBook.com.au", "example.com@acme.test",
      "contact", "me@youtube.community", "a@b", "joe@twitter.co", "<info@Acme.Test>" }

TextSeps == { " ", "", "m, " }

ExtractTexts ==
    { a \o sep \o b : a \in TextTokens, b \in TextTokens, sep \in TextSeps }
    \cup { "contact me at foo@linkedin.com" }

InitExtract ==
    /\ Idle
    /\ \E t \in ExtractTexts :
          call = [ fn |-> "_extract_emails_from_text", text |-> t, done |-> FALSE, ret |-> {} ]

\* _extract_emails_from_text(text)
ExtractCall ==
    /\ call.fn = "_extract_emails_from_text"
    /\ ~ call.done
    /\ call' = [ call EXCEPT !.done = TRUE, !.ret = ExtractEmails(call.text) ]
    /\ UNCHANGED orchVars

NextExtract == ExtractCall

SpecExtract == InitExtract /\ [][NextExtract]_vars

MxAnswers ==
    { << >>,
      << [preference |-> 10, exchange |-> "mx1"] >>,
      << [preference |-> 20, exchange |-> "mx2"], [preference |-> 10, exchange |-> "mx1"] >> }

RcptAnswers == { 0, 250, 251, 450, 550 }

Dialogues ==
    [ mx : MxAnswers, refuse : { {}, {"mx1"} }, helo : {"ok", "raise"},
      mailfrom : {"ok", "raise"}, rcpt : RcptAnswers, quit : {"ok", "raise"} ]

ProbeFunctions == { "verify_email", "discover_emails.verify_email", "discover_emails.is_catch_all" }

NoRun == [ ret |-> FALSE, raised |-> FALSE, completed |-> << >>, failed |-> "none", host |-> "" ]

InitVerify ==
    /\ Idle
    /\ \E f \in ProbeFunctions, d \in Dialogues :
          call = [ fn |-> f, d |-> d, done |-> FALSE, out |-> NoRun ]

\* utils.verify_email(address, domain)
VerifyCall ==
    /\ call.fn = "verify_email"
    /\ ~ call.done
    /\ call' = [ call EXCEPT !.done = TRUE, !.out = VerifyRun(call.d) ]
    /\ UNCHANGED orchVars

\* verify_email(email, domain) of utils.discover_emails
NestedVerifyCall ==
    /\ call.fn = "discover_emails.verify_email"
    /\ ~ call.done
    /\ call' = [ call EXCEPT !.done = TRUE, !.out = NestedVerifyRun(call.d) ]
    /\ UNCHANGED orchVars

\* is_catch_all(domain) of utils.discover_emails
IsCatchAllCall ==
    /\ call.fn = "discover_emails.is_catch_all"
    /\ ~ call.done
    /\ call' = [ call EXCEPT !.done = TRUE, !.out = IsCatchAllRun(call.d) ]
    /\ UNCHANGED orchVars

NextVerify == VerifyCall \/ NestedVerifyCall \/ IsCatchAllCall

SpecVerify == InitVerify /\ [][NextVerify]_vars

FetchStatuses == { 200, 204, 301, 404, 500 }

FetchTypes ==
    { "text/html", "text/html; charset=utf-8", "application/xhtml+xml", "Text/HTML", "" }

FetchBodies == { "", "<a href='/contact'>mail us: info@acme.test</a>" }

Responses ==
    { Raises } \cup { Resp(st, ct, b, << >>) : st \in FetchStatuses, ct \in FetchTypes, b \in FetchBodies }

FetchFunctions == { "_safe_get", "safe_get" }

InitFetch ==
    /\ Idle
    /\ \E f \in FetchFunctions, r \in Responses :
          call = [ fn |-> f, resp |-> r, done |-> FALSE,
                   out |-> [ ret |-> None, raised |-> FALSE, slept |-> FALSE ] ]

\* email_search._safe_get(url)
SafeGetCall ==
    /\ call.fn = "_safe_get"
    /\ ~ call.done
    /\ call' = [ call EXCEPT !.done = TRUE, !.out = SafeGetRun(call.resp) ]
    /\ UNCHANGED orchVars

\* utils.safe_get(url)
UtilsSafeGetCall ==
    /\ call.fn = "safe_get"
    /\ ~ call.done
    /\ call' = [ call EXCEPT !.done = TRUE, !.out = UtilsSafeGetRun(call.resp) ]
    /\ UNCHANGED orchVars

NextFetch == SafeGetCall \/ UtilsSafeGetCall

SpecFetch == InitFetch /\ [][NextFetch]_vars

UtilsDomains == { None, "", "acme.test", "Acme.Test" }

InitUtils ==
    /\ Idle
    /\ \E d \in UtilsDomains, names \in NameInputs, v \in BOOLEAN, m \in MailNames :
          call = [ fn |-> "utils.discover_emails", domain |-> d, names |-> names, verify |-> v,
                   mail |-> m, done |-> FALSE, out |-> [ raised |-> FALSE, ret |-> << >> ] ]

\* utils.discover_emails(domain, candidate_names, verify=verify)
UtilsDiscoverCall ==
    /\ call.fn = "utils.discover_emails"
    /\ ~ call.done
    /\ call' = [ call EXCEPT
                   !.done = TRUE,
                   !.out = UtilsDiscover(call.domain, call.names, call.verify, call.mail) ]
    /\ UNCHANGED orchVars

NextUtils == UtilsDiscoverCall

SpecUtils == InitUtils /\ [][NextUtils]_vars


HrefInputs ==
    { "/contact", "/Contact-Us", "contact.html", "../about", "/news", "https://other.test/team",
      "HTTP://acme.test/About", "/about.pdf", "mailto:team@acme.test", "#about", "/team", "" }

LinkBases == { "https://acme.test", "https://acme.test/team" }

InitLinks ==
    /\ Idle
    /\ \E b \in LinkBases, h1 \in HrefInputs, h2 \in HrefInputs \cup { None },
          seen \in { {}, { "https://acme.test/contact" } } :
          call = [ fn |-> "discover_links", base |-> b,
                   hrefs |-> IF h2 = None THEN << h1 >> ELSE << h1, h2 >>,
                   visited |-> seen, done |-> FALSE, ret |-> << >> ]

\* lines 95-101 of discover_emails for the anchors of one page
LinksCall ==
    /\ call.fn = "discover_links"
    /\ ~ call.done
    /\ call' = [ call EXCEPT !.done = TRUE,
                              !.ret = DiscoverLinks(call.base, call.hrefs, call.visited) ]
    /\ UNCHANGED orchVars

NextLinks == LinksCall

SpecLinks == InitLinks /\ [][NextLinks]_vars


(***************************************************************************)
(* Properties                                                              *)
(***************************************************************************)
Finished == pc = "done" /\ base # None

\* whether the names argument is truthy (line 106)
HasNames == candidate_names # << >>

\* a name as the specification describes a usable one: at least two
\* whitespace-separated tokens, the first and the last purely alphabetic
WellFormedName(full) ==
    LET toks == SplitWS(full)
    IN  Len(toks) >= 2 /\ IsAlpha(toks[1]) /\ IsAlpha(toks[Len(toks)])

\* the case-folded addresses the generator in use yields for one name
GuessesOf(full) ==
    LET toks == SplitWS(full)
    IN  { Lower(g) : g \in Range(Generate(Lower(toks[1]), Lower(toks[Len(toks)]), domain)) }

WellFormedNames ==
    IF HasNames THEN { n \in Range(candidate_names) : WellFormedName(n) } ELSE {}

AllGuesses == UNION { GuessesOf(n) : n \in WellFormedNames }

\* what follows the "@" of an address
DomainPart(address) == SubSeq(address, Len(LocalPart(address)) + 2, Len(address))

\* C1: with max_pages >= 1 a run fetches at most max_pages pages and the
\* visited set never holds more than max_pages URLs.
C1_CrawlBudget ==
    max_pages >= 1 => Len(fetched) <= max_pages /\ Cardinality(visited) <= max_pages

CatchAllProbeAccepted == \A n \in 0..1 : verify_email(mail, RandomLocal \o "@" \o domain, n)

\* C2: on a domain that accepts the catch-all probe, a run with verify=True
\* reports no guessed address as verified.
C2_CatchAllNotTrusted ==
    Finished /\ verify /\ utils_ok /\ HasNames /\ CatchAllProbeAccepted
        => accepted = {} /\ kept = {}

\* C3: the returned list is in ascending order without duplicates, every
\* element is lower-case, and its elements are exactly the scraped addresses
\* and the kept guesses.
C3_SortedDedupLower ==
    pc = "done" =>
        /\ \A i \in 1..(Len(result) - 1) : StrLess(result[i], result[i + 1])
        /\ \A i \in 1..Len(result) : \A k \in 1..Len(result[i]) : Ch(result[i], k) \notin UpperSet
        /\ Range(result) = scraped \cup kept

C3_Witness ==
    /\ Finished
    /\ Len(result) >= 4
    /\ "info@acme.test" \in scraped
    /\ kept # {}
    /\ kept \cap scraped = {}

\* C4: an empty or None domain returns [] without any fetch or probe: the
\* call goes from its entry straight to its return.
C4_EmptyDomain ==
    domain_or_url \in {None, ""} =>
        /\ pc \in {"called", "done"}
        /\ fetched = << >> /\ probed = << >>
        /\ pc = "done" => result = << >>

C4_Witness ==
    /\ pc = "done"
    /\ domain_or_url = ""
    /\ candidate_names = << "Maria Gomez" >>
    /\ verify
    /\ max_pages = 2
    /\ result = << >>

\* C5: with verify=False every address the generator yields for a
\* well-formed name is in the result (case-folded, like every element of the
\* result); for acme.test and Maria Gomez these include the three addresses
\* of the scenario.
C5_KeepAllUnverified ==
    Finished /\ ~ verify =>
        /\ AllGuesses \subseteq Range(result)
        /\ (domain_or_url = "acme.test" /\ candidate_names = << "Maria Gomez" >>)
               => { "maria@acme.test", "maria.gomez@acme.test", "mariagomez@acme.test" }
                      \subseteq Range(result)

C5_Witness ==
    /\ Finished /\ ~ verify
    /\ domain_or_url = "acme.test"
    /\ candidate_names = << "Maria Gomez" >>
    /\ site = "links"
    /\ "maria.gomez@acme.test" \in scraped
    /\ "mariagomez@acme.test" \in kept

\* whether the mail environment answers an address the same way each time
SteadyMail == ~ utils_ok \/ MailEnv(mail).policy # "greylist"

\* C6: with verify=True every generated address that was not scraped is
\* submitted to the verifier, and it is in the result exactly when the
\* verifier accepted it; the patterns after an accepted one are evaluated too.
C6_EachPatternVerified ==
    Finished /\ verify =>
        \A g \in AllGuesses \ scraped :
            /\ g \in Range(probed)
            /\ g \in Range(result) <=> g \in accepted
            /\ SteadyMail => (g \in Range(result) <=> Verify(g))

C6_Witness ==
    /\ Finished /\ verify /\ utils_ok
    /\ mail = "known"
    /\ { "jdoe@acme.test", "doe@acme.test" } \subseteq accepted
    /\ "jane@acme.test" \in Range(probed) \ Range(result)

JaneDoe == call.fn = "generate_email_formats" /\ call.done /\ call.first = "jane" /\ call.last = "doe"

\* C8 as stated: for every domain d the elements end with "@" + d.
C8_Original ==
    JaneDoe =>
        /\ ~ call.raised
        /\ Len(call.ret) = Len(DEFAULT_PATTERNS)
        /\ { "jane@" \o call.domain, "jane.doe@" \o call.domain,
             "janedoe@" \o call.domain, "doe@" \o call.domain } \subseteq Range(call.ret)
        /\ \A e \in Range(call.ret) : EndsWith(e, "@" \o call.domain)

\* C8 amended: generate_email_formats("jane", "doe", d) has as many elements
\* as there are patterns, holds jane@, jane.doe@, janedoe@ and doe@ on the
\* lower-cased d, and every element ends with "@" + the lower-cased d.
C8_JaneDoe ==
    JaneDoe =>
        LET d == Lower(call.domain)
        IN  /\ ~ call.raised
            /\ Len(call.ret) = Len(DEFAULT_PATTERNS)
            /\ { "jane@" \o d, "jane.doe@" \o d, "janedoe@" \o d, "doe@" \o d }
                   \subseteq Range(call.ret)
            /\ \A e \in Range(call.ret) : EndsWith(e, "@" \o d)

C8_Witness == JaneDoe /\ call.domain = "Acme.Test" /\ "doe@acme.test" \in Range(call.ret)

\* C9: the generator's sequence holds at least the nine listed forms.
C9_MinimumTemplates ==
    call.fn = "generate_email_formats" /\ call.done /\ ~ call.raised =>
        LET first == Strip(call.first)
            last  == Strip(call.last)
            d     == Lower(call.domain)
            f     == Ch(first, 1)
            l     == Ch(last, 1)
        IN  { Lower(a \o "@" \o d) :
                a \in { first, first \o "." \o last, first \o last, first \o "_" \o last,
                        first \o "-" \o last, f \o "." \o last, f \o last, last, l } }
                \subseteq Range(call.ret)

ExtractDone == call.fn = "_extract_emails_from_text" /\ call.done

\* C10: the extractor returns no address whose domain part contains a
\* blacklisted domain; a text whose only address is foo@linkedin.com gives
\* the empty set.
C10_NoBlacklistedDomain ==
    ExtractDone =>
        /\ \A e \in call.ret : \A bad \in BLACKLISTED_EMAIL_DOMAINS :
               ~ Contains(DomainPart(e), bad)
        /\ call.text = "contact me at foo@linkedin.com" => call.ret = {}

C10_Witness ==
    /\ ExtractDone
    /\ "x@mail.FaceBook.com.au" \in FindAll(call.text, 1)
    /\ "bob@acme.test" \in call.ret
    /\ "x@mail.facebook.com.au" \notin call.ret


ProbeDone == call.fn \in ProbeFunctions /\ call.done

VerifierDone == ProbeDone /\ call.fn # "discover_emails.is_catch_all"

\* C11: the verifier never propagates an exception; whichever step fails
\* (MX lookup, connect, HELO, MAIL FROM, RCPT TO or QUIT) it returns false,
\* and it returns true only when RCPT TO completed with code 250 or 251.
C11_VerifierTotal ==
    VerifierDone =>
        /\ ~ call.out.raised
        /\ FirstFailure(call.d, IF call.d.mx = << >> THEN ""
                                ELSE IF call.fn = "verify_email" THEN LowestMx(call.d.mx)
                                ELSE call.d.mx[1].exchange) # "none" => ~ call.out.ret
        /\ call.out.ret =>
              /\ \E i \in 1..Len(call.out.completed) : call.out.completed[i] = "rcpt"
              /\ call.d.rcpt \in {250, 251}

\* utils.verify_email answers True on a 251 and False when only QUIT fails
C11_Witness ==
    /\ VerifierDone
    /\ call.fn = "verify_email"
    /\ \/ call.out.ret /\ call.d.rcpt = 251
       \/ ~ call.out.ret /\ call.d.rcpt = 250 /\ call.out.failed = "quit"

\* whether the session was opened (connect completed) and whether QUIT
\* was sent (it completed or it is the step that raised)
SessionOpened == \E i \in 1..Len(call.out.completed) : call.out.completed[i] = "connect"

QuitSent == call.out.failed \in { "none", "quit" }

\* C12: every SMTP session the verifier opens is torn down with QUIT before
\* the verifier returns, on every path: accepted, rejected, or an exception
\* after the connection was opened.
C12_QuitOnEveryPath ==
    VerifierDone /\ SessionOpened => QuitSent

\* C16: for a domain with no resolvable MX record the verifier returns false
\* and the catch-all detector returns false; neither raises, neither retries.
C16_NoMx ==
    ProbeDone /\ call.d.mx = << >> =>
        /\ ~ call.out.raised
        /\ ~ call.out.ret
        /\ call.out.completed = << >>


FetchDone == call.fn \in FetchFunctions /\ call.done

\* a response that arrived with status 200 and a Content-Type header
\* containing "text/html"
HtmlOk(resp) ==
    /\ ~ resp.exc
    /\ resp.status = 200
    /\ \E i \in 1..Len(resp.ctype) : SubSeq(resp.ctype, i, Len(resp.ctype)) # ""
                                     /\ StartsWith(SubSeq(resp.ctype, i, Len(resp.ctype)), "text/html")

\* C13: the page fetcher returns the response text if and only if the
\* status is exactly 200 and the content type contains "text/html"; every
\* other outcome (another status, another type, a network error) returns
\* no content, and the fetcher never raises.
C13_FetcherTotal ==
    FetchDone =>
        /\ ~ call.out.raised
        /\ HtmlOk(call.resp) => call.out.ret = call.resp.text
        /\ ~ HtmlOk(call.resp) => call.out.ret = None

\* an HTML page came back with its body, and a 200 of another type did not
C13_Witness ==
    /\ FetchDone
    /\ call.fn = "_safe_get"
    /\ \/ call.resp.status = 200 /\ call.resp.ctype = "text/html; charset=utf-8"
          /\ call.out.ret = call.resp.text /\ call.resp.text # ""
       \/ call.resp.status = 200 /\ call.resp.ctype = "application/xhtml+xml"
          /\ call.out.ret = None


\* what is left of the call, most significant first: the phases ahead, the
\* page budget, the queue entries ahead, the name pairs ahead and the
\* patterns ahead for the pair in hand
PhasesLeft ==
    CASE pc = "called" -> 4
      [] pc = "crawl"  -> 3
      [] pc = "guess"  -> 2
      [] pc = "return" -> 1
      [] OTHER         -> 0

Rank ==
    << PhasesLeft,
       IF max_pages > Cardinality(visited) THEN max_pages - Cardinality(visited) ELSE 0,
       Len(pages_to_visit) + 1 - idx,
       Len(pairs) + 1 - pi,
       Len(guesses) + 1 - gi >>

\* r comes strictly before s in the lexicographic order
LexLess(r, s) ==
    \E k \in 1..Len(s) : r[k] < s[k] /\ \A j \in 1..(k - 1) : r[j] = s[j]

\* C14: every call of discover_emails terminates, whatever max_pages, the
\* names and the site (pages that link to each other or to themselves
\* included): every step of the call takes a tuple of five natural numbers
\* strictly down in the lexicographic order, so no call takes infinitely
\* many steps.
C14_Terminates ==
    [][ /\ LexLess(Rank', Rank)
        /\ \A k \in 1..Len(Rank') : Rank'[k] \in Nat ]_vars

\* a call returned after a crawl of pages that link to themselves and to
\* each other, the queue having grown, and after guessing for two names
C14_Witness ==
    /\ Finished
    /\ site = "loop"
    /\ Len(pages_to_visit) > SeedCount(max_pages)
    /\ \E i \in 1..Len(pages_to_visit) : \E j \in 1..Len(pages_to_visit) :
          i < j /\ pages_to_visit[i] = pages_to_visit[j]
    /\ Len(pairs) >= 2


\* C15: discovery is idempotent: a second call with the same arguments,
\* against a site and a mail server that answer every fetch and every probe
\* as they did in the first call, returns the list the first call returned.
C15_Idempotent ==
    pc = "done" /\ run > 1 => \A i \in 1..Len(prev) : prev[i] = result

\* a second call returned a list holding scraped and verified addresses
C15_Witness ==
    /\ pc = "done"
    /\ run > 1
    /\ Len(prev) = run - 1
    /\ verify /\ utils_ok
    /\ scraped # {}
    /\ accepted # {}
    /\ \E a \in accepted : a \notin scraped


\* C17: no failure mode aborts a discovery run: for every domain string,
\* every list of names, both values of verify and every behaviour of the
\* mail server, discover_emails returns a list and propagates no exception.
C17_NeverRaises ==
    call.fn = "utils.discover_emails" /\ call.done => ~ call.out.raised


\* whether a sequence holds no element twice
NoDuplicates(seq) ==
    \A i \in 1..Len(seq) : \A j \in 1..Len(seq) : i # j => seq[i] # seq[j]

\* C18: no URL is fetched twice in one run: every URL is added to the
\* visited set before it is fetched, and a URL already in the visited set is
\* skipped even if it was queued several times.
C18_NoUrlFetchedTwice ==
    /\ NoDuplicates(fetched)
    /\ Range(fetched) = visited
    /\ [ i \in 1..Len(fetchlog) |-> fetchlog[i].url ] = fetched
    /\ pc \in { "crawl", "guess", "return", "done" } =>
          \A i \in 1..Len(pages_to_visit) :
             i < idx /\ ~ BINARY_EXT_RE(pages_to_visit[i]) => pages_to_visit[i] \in visited

\* the crawl is over, a URL was queued more than once and was fetched
C18_Witness ==
    /\ Finished
    /\ \E i \in 1..Len(pages_to_visit) : \E j \in 1..Len(pages_to_visit) :
          /\ i < j
          /\ pages_to_visit[i] = pages_to_visit[j]
          /\ pages_to_visit[i] \in Range(fetched)


\* C19: no retries: with verify=True no address is submitted to the
\* verifier more than once in a run, so an address the verifier rejected
\* is never probed again and added by a later probe.
C19_NoRetries ==
    verify => NoDuplicates(probed)


\* C20: after every successful page fetch (the fetcher returned the text of
\* a 200 text/html response) the orchestrator loop sleeps before the next
\* fetch request is issued, so no two requests go out back to back after a
\* successful fetch.
C20_DelayAfterFetch ==
    \A i \in 1..Len(fetchlog) :
       fetchlog[i].got # "none" /\ i < Len(fetchlog) => fetchlog[i].slept


Origin(u) ==
    LET k    == IF StartsWith(Lower(Prefix(u, 8)), "https://") THEN 8
                ELSE IF StartsWith(Lower(Prefix(u, 7)), "http://") THEN 7 ELSE 0
        ends == { j \in (k + 1)..Len(u) : Ch(u, j) = "/" }
    IN  IF ends = {} THEN u
        ELSE Prefix(u, (CHOOSE j \in ends : \A m \in ends : j <= m) - 1)

\* C22: every URL fetched during a run is on the site (scheme and host) of
\* the normalized base URL: a discovered link that points to another host is
\* never added to the page queue and never fetched.
C22_SameSiteOnly ==
    base # None =>
        /\ \A i \in 1..Len(fetched) : Origin(fetched[i]) = Origin(base)
        /\ \A i \in 1..Len(pages_to_visit) : Origin(pages_to_visit[i]) = Origin(base)


LinksDone == call.fn = "discover_links" /\ call.done

\* href holds one of the keywords, in any case
HasKeyword(href) ==
    \E k \in { "contact", "team", "about" } :
       \E i \in 1..Len(href) : StartsWith(Lower(SubSeq(href, i, Len(href))), k)

RootRelative(href) == Len(href) > 0 /\ SubSeq(href, 1, 1) = "/"

AbsoluteHttp(href) ==
    \E n \in { 7, 8 } : Len(href) >= n /\ Lower(SubSeq(href, 1, n)) \in { "http://", "https://" }

\* C23: link discovery enqueues an anchor target only if its href contains
\* "contact", "team" or "about" in any case; a root-relative href is
\* enqueued as base + href; an href that is neither absolute http(s) nor
\* root-relative is never enqueued.
C23_LinkDiscovery ==
    LinksDone =>
        /\ \A i \in 1..Len(call.ret) :
              \E j \in 1..Len(call.hrefs) :
                 LET href == call.hrefs[j]
                 IN  /\ HasKeyword(href)
                     /\ \/ RootRelative(href) /\ call.ret[i] = call.base \o href
                        \/ AbsoluteHttp(href) /\ call.ret[i] = href
        /\ \A j \in 1..Len(call.hrefs) :
              LET href == call.hrefs[j]
              IN  /\ RootRelative(href) /\ HasKeyword(href)
                  /\ call.base \o href \notin call.visited
                  /\ ~ BINARY_EXT_RE(href)
                  => \E i \in 1..Len(call.ret) : call.ret[i] = call.base \o href

\* a root-relative keyword link was enqueued as base + href and a relative
\* keyword link of the same page was not
C23_Witness ==
    /\ LinksDone
    /\ call.base = "https://acme.test/team"
    /\ call.hrefs = << "contact.html", "/Contact-Us" >>
    /\ call.ret = << "https://acme.test/team/Contact-Us" >>


\* C24: for every accepted input (a bare host, or a URL with a scheme and
\* possibly a path) the domain handed to the pattern generator and to the
\* verifier is the bare host: no scheme, no path, no "/", so that every
\* guessed address is local-part@host.
C24_BareHostDomain ==
    Finished /\ HasNames /\ Strip(domain_or_url) # "" =>
        /\ ~ Contains(domain, "/")
        /\ ~ Contains(domain, ":")
        /\ \A a \in kept : ~ Contains(a, "/")


\* C25: during a run the visited set and the found set only grow, no step
\* removes an element, and the list finally returned holds exactly the found
\* set: what is found at any page or verification boundary is part of the
\* final result.
C25_OnlyGrows ==
    [][ /\ visited \subseteq visited'
        /\ found \subseteq found'
        /\ pc' = "done" /\ base' # None => Range(result') = found' ]_vars

\* a run returned after two pages added scraped addresses and the guessing
\* added more
C25_Witness ==
    /\ Finished
    /\ Cardinality(visited) >= 2
    /\ Cardinality(scraped) >= 2
    /\ kept # {}
    /\ Range(result) = scraped \cup kept


\* C26: an input that cannot be a domain, in particular one that is empty
\* once the surrounding whitespace is stripped, ends the call at once with
\* an empty result: no page is fetched and no address is probed.
C26_BlankInput ==
    pc = "done" /\ (domain_or_url = None \/ Strip(domain_or_url) = "") =>
        /\ result = << >>
        /\ fetched = << >>
        /\ probed = << >>


\* C27: for every input domain, every set of scraped pages and every list of
\* names, no address of the returned list has a domain of the blacklisted
\* domain set, whether it was scraped or guessed.
C27_NoBlacklistedResult ==
    Finished =>
        \A i \in 1..Len(result) : DomainPart(result[i]) \notin BLACKLISTED_EMAIL_DOMAINS


\* C28: a discovered link is appended to the page queue only while the
\* visited count, the page in hand included, is below max_pages: once the
\* visited set holds max_pages URLs the queue never grows again in the run.
C28_QueueGatedOnBudget ==
    [][ pc # "called" =>
          /\ pages_to_visit' # pages_to_visit => Cardinality(visited') < max_pages
          /\ Cardinality(visited) >= max_pages => pages_to_visit' = pages_to_visit ]_vars

\* the queue grew while the budget lasted, and pages that hold links were
\* fetched after the budget was spent
C28_Witness ==
    /\ Finished
    /\ site = "loop"
    /\ max_pages = 2
    /\ Len(pages_to_visit) > SeedCount(max_pages)
    /\ \E i \in 1..Len(fetchlog) : i > max_pages /\ fetchlog[i].got = "page"


KnownExtensions ==
    { ".pdf", ".png", ".jpg", ".jpeg", ".gif", ".zip", ".doc", ".docx", ".ppt", ".pptx" }

\* the URL up to its query string or fragment
BeforeQuery(u) ==
    LET cut == { j \in 1..Len(u) : Ch(u, j) \in { "?", "#" } }
    IN  IF cut = {} THEN u ELSE Prefix(u, (CHOOSE j \in cut : \A m \in cut : j <= m) - 1)

\* whether a string ends in a known binary extension, in any case
EndsInExtension(u) ==
    \E e \in KnownExtensions :
       Len(u) >= Len(e) /\ Lower(SubSeq(u, Len(u) - Len(e) + 1, Len(u))) = e

\* C29 as stated: no URL whose path ends in a known binary extension is
\* passed to the page fetcher, seed or discovered link.
C29_Original ==
    \A i \in 1..Len(fetched) : ~ EndsInExtension(BeforeQuery(fetched[i]))

\* C29: no URL that itself ends in a known binary extension, in any case,
\* is passed to the page fetcher, whether it is a seed or a discovered link.
C29_NoBinaryFetched ==
    \A i \in 1..Len(fetched) : ~ EndsInExtension(fetched[i])

\* the crawl is over; the links of a page that holds "/Team.PNG" were
\* queued and fetched, "/Team.PNG" was not
C29_Witness ==
    /\ Finished
    /\ site = "links"
    /\ base \o "/about-us" \in Range(fetched)
    /\ base \o "/about.pdf?v=2" \in Range(fetched)
    /\ base \o "/Team.PNG" \notin Range(pages_to_visit)
    /\ base \o "/Team.PNG" \notin Range(fetched)


\* C30: when max_pages is zero or negative the call fetches no page at all:
\* the seed queue is empty and the result holds guessed addresses only.
C30_NoBudgetNoFetch ==
    Finished /\ max_pages <= 0 =>
        /\ pages_to_visit = << >>
        /\ fetched = << >>
        /\ Range(result) = kept

====
